---------------------------- MODULE Spec2Model ----------------------------
(***************************************************************************)
(* A model of the mail automation utility: the script app.py (main and its *)
(* module-level functions) and the class MailHandler (MailHandler.py), as  *)
(* exercised by test_mail_handler.py.                                      *)
(*                                                                         *)
(* Program strings are sequences of one-character strings, so that        *)
(* str.replace, os.path.basename, text encoding and base64 are computed.  *)
(* An optional value (None or a value) is a sequence of length 0 or 1.    *)
(***************************************************************************)
EXTENDS Integers, Sequences, FiniteSets, TLC

(* ------------------------------ bounds -------------------------------- *)

\* The largest number of message ids the server's SEARCH reply lists.
MaxMsgs == 2

\* The wall clock runs over the seconds 0..MaxClock past 2021-01-01T12:00:00.
MaxClock == 1

\* The largest number of create_ics_file calls one test run makes.
MaxIcsCalls == 2

(* ------------------------ program constants --------------------------- *)

imap_port == 993

smtp_port == 587

\* fetch_inbox_emails' default for num_emails.
num_emails == 10

\* base64.MAXBINSIZE: input bytes encoded per output line by encodebytes.
MAXBINSIZE == 57

(* ------------------------------- text --------------------------------- *)

None == <<>>

Some(v) == <<v>>

\* Python truthiness of an Optional[str]: None and "" are falsy.
Falsy(o) == o = None \/ o[1] = <<>>

Ascii ==
    <<" ", "!", "\"", "#", "$", "%", "&", "'", "(", ")", "*", "+", ",", "-", ".", "/", "0",
      "1", "2", "3", "4", "5", "6", "7", "8", "9", ":", ";", "<", "=", ">", "?", "@", "A",
      "B", "C", "D", "E", "F", "G", "H", "I", "J", "K", "L", "M", "N", "O", "P", "Q", "R",
      "S", "T", "U", "V", "W", "X", "Y", "Z", "[", "\\", "]", "^", "_", "", "a", "b", "c",
      "d", "e", "f", "g", "h", "i", "j", "k", "l", "m", "n", "o", "p", "q", "r", "s", "t",
      "u", "v", "w", "x", "y", "z", "{", "|", "}", "~">>

\* ord() on the characters the model uses: printable ASCII (code 96, the
\* backquote, no TLA+ string can hold: its place in Ascii is left empty) and newline.
Ord(c) == IF c = "\n" THEN 10 ELSE 31 + (CHOOSE i \in 1..Len(Ascii) : Ascii[i] = c)

\* What a text file holds for a str written to it, and str(bytes, "ascii").
EncodeText(s) == [i \in 1..Len(s) |-> Ord(s[i])]

\* str.replace(old, new) for one-character old and new.
Replace(s, old, new) == [i \in 1..Len(s) |-> IF s[i] = old THEN new ELSE s[i]]

\* os.path.basename: what follows the last "/".
RECURSIVE basename(_)
basename(p) ==
    IF p = <<>> THEN <<>>
    ELSE IF p[Len(p)] = "/" THEN <<>>
    ELSE basename(SubSeq(p, 1, Len(p) - 1)) \o <<p[Len(p)]>>

RECURSIVE Concat(_)
Concat(ss) == IF ss = <<>> THEN <<>> ELSE Head(ss) \o Concat(Tail(ss))

(* ------------------------------ base64 -------------------------------- *)

B64Alphabet ==
    <<"A", "B", "C", "D", "E", "F", "G", "H", "I", "J", "K", "L", "M", "N", "O", "P", "Q",
      "R", "S", "T", "U", "V", "W", "X", "Y", "Z", "a", "b", "c", "d", "e", "f", "g", "h",
      "i", "j", "k", "l", "m", "n", "o", "p", "q", "r", "s", "t", "u", "v", "w", "x", "y",
      "z", "0", "1", "2", "3", "4", "5", "6", "7", "8", "9", "+", "/">>

B64Char(n) == B64Alphabet[n + 1]

\* binascii.b2a_base64 without its newline: 3 bytes to 4 characters, padded.
RECURSIVE B64Body(_)
B64Body(b) ==
    IF Len(b) = 0 THEN <<>>
    ELSE IF Len(b) = 1 THEN
        <<B64Char(b[1] \div 4), B64Char((b[1] % 4) * 16), "=", "=">>
    ELSE IF Len(b) = 2 THEN
        <<B64Char(b[1] \div 4), B64Char((b[1] % 4) * 16 + b[2] \div 16),
          B64Char((b[2] % 16) * 4), "=">>
    ELSE
        <<B64Char(b[1] \div 4), B64Char((b[1] % 4) * 16 + b[2] \div 16),
          B64Char((b[2] % 16) * 4 + b[3] \div 64), B64Char(b[3] % 64)>>
        \o B64Body(SubSeq(b, 4, Len(b)))

\* base64.encodebytes: one newline-terminated line per MAXBINSIZE input bytes.
RECURSIVE encodebytes(_)
encodebytes(b) ==
    IF Len(b) = 0 THEN <<>>
    ELSE IF Len(b) <= MAXBINSIZE THEN B64Body(b) \o <<"\n">>
    ELSE B64Body(SubSeq(b, 1, MAXBINSIZE)) \o <<"\n">>
         \o encodebytes(SubSeq(b, MAXBINSIZE + 1, Len(b)))

(* ---------------------------- MIME messages --------------------------- *)

\* A message or message part: its content type and that type's parameters, its
\* other headers in order, its payload text (a leaf), its sub-parts (a multipart).
Part(ct, pm, hs, pl, ps) ==
    [ctype |-> ct, params |-> pm, headers |-> hs, payload |-> pl, parts |-> ps]

Hdr(n, v) == [name |-> n, value |-> v]

\* Message.__getitem__: the first header of that name, or None.
GetHeader(m, n) ==
    IF \E i \in 1..Len(m.headers) : m.headers[i].name = n
    THEN Some(m.headers[CHOOSE i \in 1..Len(m.headers) :
                  /\ m.headers[i].name = n
                  /\ \A j \in 1..(i - 1) : m.headers[j].name # n].value)
    ELSE None

\* Message.attach: append a sub-part.
Attach(m, p) == [m EXCEPT !.parts = Append(@, p)]

\* Message.walk: the message itself, then each sub-part's walk, depth first.
RECURSIVE walk(_)
walk(m) == <<m>> \o Concat([i \in 1..Len(m.parts) |-> walk(m.parts[i])])

(* --------------------------- dates and times -------------------------- *)

\* A datetime of January 2021, on the minute: the day, the hour and the second.
DateTime(d, h, s) == [day |-> d, hour |-> h, sec |-> s]

\* datetime.now() when the clock shows second t.
now(t) == DateTime(1, 12, t)

\* dt + timedelta(days = 1) and dt + timedelta(hours = 1).
plus_day(dt) == [dt EXCEPT !.day = @ + 1]

plus_hour(dt) ==
    IF dt.hour = 23 THEN [dt EXCEPT !.day = @ + 1, !.hour = 0]
    ELSE [dt EXCEPT !.hour = @ + 1]

Digit(n) == Ascii[17 + n]

D2(n) == <<Digit(n \div 10), Digit(n % 10)>>

\* strftime("%Y%m%dT%H%M%S")
strftime(dt) ==
    <<"2", "0", "2", "1", "0", "1">> \o D2(dt.day) \o <<"T">> \o D2(dt.hour)
    \o <<"0", "0">> \o D2(dt.sec)

(* ------------------------------ invites ------------------------------- *)

ICS_HEAD_MH ==
    <<"B", "E", "G", "I", "N", ":", "V", "C", "A", "L", "E", "N", "D", "A", "R", "\n", "V",
      "E", "R", "S", "I", "O", "N", ":", "2", ".", "0", "\n", "P", "R", "O", "D", "I", "D",
      ":", "-", "/", "/", "Y", "o", "u", "r", " ", "O", "r", "g", "a", "n", "i", "z", "a",
      "t", "i", "o", "n", "/", "/", "Y", "o", "u", "r", " ", "P", "r", "o", "d", "u", "c",
      "t", "/", "/", "E", "N", "\n", "M", "E", "T", "H", "O", "D", ":", "R", "E", "Q", "U",
      "E", "S", "T", "\n", "B", "E", "G", "I", "N", ":", "V", "E", "V", "E", "N", "T",
      "\n", "U", "I", "D", ":">>

ICS_HEAD_APP ==
    <<"B", "E", "G", "I", "N", ":", "V", "C", "A", "L", "E", "N", "D", "A", "R", "\n", "V",
      "E", "R", "S", "I", "O", "N", ":", "2", ".", "0", "\n", "P", "R", "O", "D", "I", "D",
      ":", "-", "/", "/", "Y", "o", "u", "r", " ", "O", "r", "g", "a", "n", "i", "z", "a",
      "t", "i", "o", "n", "/", "/", "Y", "o", "u", "r", " ", "P", "r", "o", "d", "u", "c",
      "t", "/", "/", "E", "N", "\n", "B", "E", "G", "I", "N", ":", "V", "E", "V", "E", "N",
      "T", "\n", "U", "I", "D", ":">>

ICS_UID_TAIL ==
    <<"@", "y", "o", "u", "r", "d", "o", "m", "a", "i", "n", ".", "c", "o", "m", "\n", "D",
      "T", "S", "T", "A", "M", "P", ":">>

ICS_STAMP_TAIL ==
    <<"Z", "\n", "D", "T", "S", "T", "A", "R", "T", ":">>

ICS_DTEND ==
    <<"\n", "D", "T", "E", "N", "D", ":">>

ICS_SUMMARY ==
    <<"\n", "S", "U", "M", "M", "A", "R", "Y", ":">>

ICS_DESCRIPTION ==
    <<"\n", "D", "E", "S", "C", "R", "I", "P", "T", "I", "O", "N", ":">>

ICS_LOCATION ==
    <<"\n", "L", "O", "C", "A", "T", "I", "O", "N", ":">>

ICS_ORGANIZER ==
    <<"\n", "O", "R", "G", "A", "N", "I", "Z", "E", "R", ";", "C", "N", "=", "O", "r", "g",
      "a", "n", "i", "z", "e", "r", ":", "M", "A", "I", "L", "T", "O", ":">>

ICS_ATTENDEE ==
    <<"\n", "A", "T", "T", "E", "N", "D", "E", "E", ";", "R", "S", "V", "P", "=", "T", "R",
      "U", "E", ";", "C", "N", "=", "A", "t", "t", "e", "n", "d", "e", "e", ";", "P", "A",
      "R", "T", "S", "T", "A", "T", "=", "N", "E", "E", "D", "S", "-", "A", "C", "T", "I",
      "O", "N", ":", "M", "A", "I", "L", "T", "O", ":">>

ICS_TAIL ==
    <<"\n", "E", "N", "D", ":", "V", "E", "V", "E", "N", "T", "\n", "E", "N", "D", ":",
      "V", "C", "A", "L", "E", "N", "D", "A", "R">>

DOT_ICS ==
    <<".", "i", "c", "s">>

\* MailHandler.create_ics_file's f-string; t1 and t2 are its two datetime.now().
MH_ics_content(self_email, event_name, start_time, end_time, description, location, attendee_email, t1, t2) ==
    ICS_HEAD_MH \o strftime(now(t1)) \o ICS_UID_TAIL \o strftime(now(t2))
    \o ICS_STAMP_TAIL \o strftime(start_time) \o ICS_DTEND \o strftime(end_time)
    \o ICS_SUMMARY \o event_name \o ICS_DESCRIPTION \o description
    \o ICS_LOCATION \o location \o ICS_ORGANIZER \o self_email
    \o ICS_ATTENDEE \o attendee_email \o ICS_TAIL

\* app.create_ics_file's f-string.
App_ics_content(event_name, start_time, end_time, description, location, t1, t2) ==
    ICS_HEAD_APP \o strftime(now(t1)) \o ICS_UID_TAIL \o strftime(now(t2))
    \o ICS_STAMP_TAIL \o strftime(start_time) \o ICS_DTEND \o strftime(end_time)
    \o ICS_SUMMARY \o event_name \o ICS_DESCRIPTION \o description
    \o ICS_LOCATION \o location \o ICS_TAIL

\* str.replace(old, new, 1): only the first occurrence is replaced.
ReplaceFirst(s, old, new) ==
    [i \in 1..Len(s) |->
        IF s[i] = old /\ (\A j \in 1..(i - 1) : s[j] # old) THEN new ELSE s[i]]

\* A slip in the file name: only the first space becomes an underscore.
ics_filename_of_first_space(event_name) == ReplaceFirst(event_name, " ", "_") \o DOT_ICS

\* The file name both create_ics_file functions derive from the event name.
ics_filename_of(event_name) == Replace(event_name, " ", "_") \o DOT_ICS

(* ------------------- literals of the source -------------------------- *)

MeetingWithTeam == <<"M", "e", "e", "t", "i", "n", "g", " ", "w", "i", "t", "h", " ", "T", "e", "a", "m">>

DiscussingProjectUpdates == <<"D", "i", "s", "c", "u", "s", "s", "i", "n", "g", " ", "p", "r", "o", "j", "e", "c", "t", " ", "u", "p", "d", "a", "t", "e", "s", ".">>

Office == <<"O", "f", "f", "i", "c", "e">>

AttachmentFilename == <<"a", "t", "t", "a", "c", "h", "m", "e", "n", "t", ";", " ", "f", "i", "l", "e", "n", "a", "m", "e", "=">>

CalendarMessageClass == <<"u", "r", "n", ":", "c", "o", "n", "t", "e", "n", "t", "-", "c", "l", "a", "s", "s", "e", "s", ":", "c", "a", "l", "e", "n", "d", "a", "r", "m", "e", "s", "s", "a", "g", "e">>

REQUEST == <<"R", "E", "Q", "U", "E", "S", "T">>

Base64Name == <<"b", "a", "s", "e", "6", "4">>

(* --------------------- sample inputs of the model --------------------- *)

Me == <<"m", "e", "@", "x", ".", "o", "r", "g">>

Secret == <<"p", "w">>

Rcpt == <<"t", "o", "@", "x", ".", "o", "r", "g">>

SubjHi == <<"H", "i">>

BodyText == <<"S", "e", "e", " ", "y", "o", "u">>

SubjInvite == <<"I", "n", "v", "i", "t", "e">>

SubjLunch == <<"L", "u", "n", "c", "h">>

TestEvent == <<"T", "e", "s", "t", " ", "E", "v", "e", "n", "t">>

Test_Event == <<"T", "e", "s", "t", "_", "E", "v", "e", "n", "t">>

TwoSpaces == <<"a", " ", " ", "b">>

Descr == <<"D", "e", "s", "c", "r", "i", "p", "t", "i", "o", "n">>

Loc == <<"L", "o", "c", "a", "t", "i", "o", "n">>

Attendee == <<"a", "t", "t", "e", "n", "d", "e", "e", "@", "x", ".", "o", "r", "g">>

PathA == <<"a", ".", "i", "c", "s">>

PathB == <<"d", "i", "r", "/", "b", ".", "i", "c", "s">>

PathC == <<"c", ".", "i", "c", "s">>

PathE == <<"e", "m", "p", "t", "y", ".", "i", "c", "s">>

PathLong == <<"l", "o", "n", "g", ".", "i", "c", "s">>

PathMissing == <<"m", "i", "s", "s", "i", "n", "g", ".", "i", "c", "s">>

EnvNames == {"EMAIL", "PASSWORD"}

\* The values an environment variable may hold: "" or a proper value.
EnvValues(name) == IF name = "EMAIL" THEN {<<>>, Me} ELSE {<<>>, Secret}

Environments ==
    UNION {{env \in [K -> {<<>>, Me, Secret}] : \A k \in K : env[k] \in EnvValues(k)} :
           K \in SUBSET EnvNames}

\* os.environ.get(name): None when the variable is not set.
environ_get(env, name) == IF name \in DOMAIN env THEN Some(env[name]) ELSE None

\* The files in the working directory before the program starts: attachment
\* files of 3, 2, 1, 0 and 60 bytes.
InitialFiles ==
    (PathA :> <<77, 97, 110>>) @@ (PathB :> <<77, 97>>) @@ (PathC :> <<77>>)
    @@ (PathE :> <<>>) @@ (PathLong :> [i \in 1..60 |-> 64 + i])

AttachmentPaths ==
    {None, Some(<<>>), Some(PathA), Some(PathB), Some(PathC), Some(PathE),
     Some(PathLong), Some(PathMissing)}

EventNames == {TestEvent, Test_Event, TwoSpaces, <<>>}

Bodies == {BodyText, <<>>}

Leaf(ct) == Part(ct, <<>>, <<>>, <<>>, <<>>)

\* The MIME structures of the messages the server holds (without Subject).
Shapes ==
    { Leaf("text/plain"),
      Leaf("text/calendar"),
      Part("multipart/mixed", <<>>, <<>>, <<>>,
           <<Leaf("text/plain"), Leaf("text/calendar")>>),
      Part("multipart/alternative", <<>>, <<>>, <<>>,
           <<Leaf("text/plain"), Leaf("text/html")>>),
      Part("multipart/mixed", <<>>, <<>>, <<>>,
           <<Part("multipart/alternative", <<>>, <<>>, <<>>,
                  <<Leaf("text/plain"), Leaf("text/calendar")>>),
             Leaf("application/pdf")>>),
      Part("multipart/mixed", <<>>, <<>>, <<>>,
           <<Part("multipart/alternative", <<>>, <<>>, <<>>,
                  <<Leaf("text/plain"), Leaf("text/html")>>),
             Leaf("application/pdf")>>),
      Part("multipart/mixed", <<>>, <<>>, <<>>,
           <<Leaf("text/calendar"), Leaf("text/calendar")>>) }

Subjects == {None, Some(SubjInvite), Some(SubjLunch)}

WithSubject(m, s) ==
    IF s = None THEN m ELSE [m EXCEPT !.headers = <<Hdr("Subject", s[1])>> \o @]

\* What message_from_bytes makes of the messages a FETCH may return.
ServerMessages == {WithSubject(m, s) : m \in Shapes, s \in Subjects}

\* The raw RFC822 bytes a FETCH may return to app.py: "Hi", nothing, and a
\* byte that is not UTF-8.
RawMessages == {<<72, 105>>, <<>>, <<255>>}

Chr(n) == IF n = 10 THEN "\n" ELSE Ascii[n - 31]

\* bytes.decode("utf-8") on the bytes of RawMessages: ASCII decodes to itself,
\* and a byte in 0xF8..0xFF raises UnicodeDecodeError (None here).
decode_utf8(b) ==
    IF \A i \in 1..Len(b) : b[i] < 128
    THEN Some([i \in 1..Len(b) |-> Chr(b[i])])
    ELSE None

(* ------------------------------- state -------------------------------- *)

VARIABLES
    entry,          \* what runs: "app" (app.main) or "test" (a test of MailHandler)
    pc,             \* the statement the run is at
    environ,        \* os.environ
    user_email,     \* main's local / MailHandler's attribute (None before it is set)
    user_password,
    imap,           \* the retrieval session: none, Unauthenticated, Authenticated, Closed
    smtp,           \* the submission session, likewise
    trace,          \* the calls made so far on the network and the file system
    files,          \* the working directory: file name -> bytes
    clock,          \* the wall clock's second
    email_ids,      \* the scan's ids still to fetch
    emails,         \* the scan's list so far (emails / calendar_responses)
    args,           \* the arguments of the call in progress, main's locals
    msg,            \* the message handed to sendmail (None before)
    ret,            \* how the last call ended
    log,            \* the logging records written
    ics_calls       \* the create_ics_file calls made so far

vars ==
    <<entry, pc, environ, user_email, user_password, imap, smtp, trace, files,
      clock, email_ids, emails, args, msg, ret, log, ics_calls>>

\* One call made on a session or on the file system: the operation, the state
\* the session was in, the status that came back, and the argument.
Ev(op, sess, status, arg) == [op |-> op, sess |-> sess, status |-> status, arg |-> arg]

Returned(v) == [kind |-> "returned", val |-> v, exc |-> "none"]

Raised(e) == [kind |-> "raised", val |-> None, exc |-> e]

NoCall == [kind |-> "none", val |-> None, exc |-> "none"]

LogRec(level, text, e) == [level |-> level, text |-> text, exc |-> e]

NoArgs == [fn |-> "none"]

Init ==
    /\ entry \in {"app", "test"}
    /\ pc = IF entry = "app" THEN "main" ELSE "fixture"
    /\ environ \in Environments
    /\ user_email = None
    /\ user_password = None
    /\ imap = "none"
    /\ smtp = "none"
    /\ trace = <<>>
    /\ files = InitialFiles
    /\ clock = 0
    /\ email_ids = <<>>
    /\ emails = <<>>
    /\ args = NoArgs
    /\ msg = None
    /\ ret = NoCall
    /\ log = <<>>
    /\ ics_calls = 0

(* ------------------------ building the message ------------------------ *)

\* MIMEText(body, "plain")
MIMEText(body) == Part("text/plain", <<>>, <<>>, body, <<>>)

\* `if attachment_path:` holds and open(attachment_path, "rb") finds the file.
Attaches(attachment_path) == ~Falsy(attachment_path)

Readable(attachment_path, fs) == attachment_path[1] \in DOMAIN fs

\* app.send_email's attachment part (lines 145-149).
App_attachment(path, fs) ==
    Part("application/octet-stream", <<>>,
         <<Hdr("Content-Transfer-Encoding", Base64Name),
           Hdr("Content-Disposition", AttachmentFilename \o basename(path))>>,
         encodebytes(fs[path]), <<>>)

\* app.send_email's message (lines 137-150); the attachment is readable.
App_message(from, to, subject, body, attachment_path, fs) ==
    LET m == Part("multipart/mixed", <<>>,
                  <<Hdr("From", from), Hdr("To", to), Hdr("Subject", subject)>>,
                  <<>>, <<MIMEText(body)>>)
    IN  IF Attaches(attachment_path)
        THEN Attach(m, App_attachment(attachment_path[1], fs))
        ELSE m

\* A slip in send_email: encoders.encode_base64 is not called, the payload
\* stays the file's raw bytes.
MH_attachment_unencoded(path, fs) ==
    Part("text/calendar", <<Hdr("method", REQUEST), Hdr("name", basename(path))>>,
         <<Hdr("Content-Disposition", AttachmentFilename \o basename(path)),
           Hdr("Content-class", CalendarMessageClass)>>,
         [i \in 1..Len(fs[path]) |-> Chr(fs[path][i])], <<>>)

\* MailHandler.send_email's attachment part (lines 191-206).
MH_attachment(path, fs) ==
    Part("text/calendar", <<Hdr("method", REQUEST), Hdr("name", basename(path))>>,
         <<Hdr("Content-Transfer-Encoding", Base64Name),
           Hdr("Content-Disposition", AttachmentFilename \o basename(path)),
           Hdr("Content-class", CalendarMessageClass)>>,
         encodebytes(fs[path]), <<>>)

\* MailHandler.send_email's message (lines 179-207); the attachment is readable.
MH_message(from, to, subject, body, attachment_path, fs) ==
    LET msg_alt == Part("multipart/alternative", <<>>, <<>>, <<>>, <<MIMEText(body)>>)
        m == Part("multipart/mixed", <<>>,
                  <<Hdr("From", from), Hdr("To", to), Hdr("Subject", subject)>>,
                  <<>>, <<msg_alt>>)
    IN  IF Attaches(attachment_path)
        THEN Attach(m, MH_attachment(attachment_path[1], fs))
        ELSE m

\* What smtp_conn.sendmail may do: return, or raise one of these.
SendOutcomes == {"ok", "SMTPRecipientsRefused", "SMTPServerDisconnected"}

\* open(name, "w") and write: the file holds exactly the text written.
WriteFile(fs, name, text) ==
    [f \in DOMAIN fs \cup {name} |-> IF f = name THEN EncodeText(text) ELSE fs[f]]

\* A slip in the status check: no reply counts as a failure.
NotOK_never(result) == FALSE

\* `if result != "OK"`: a SEARCH or FETCH reply that is not a success.
NotOK(result) == result # "OK"

\* A slip in send_email: the except clause logs and does not raise again.
SendResult_swallows(out) == Returned(None)

\* send_email's try/except around sendmail: the call returns when sendmail
\* did, and re-raises what sendmail raised.
SendResult(out) == IF out = "ok" THEN Returned(None) ELSE Raised(out)

\* email_ids[-n:]
LastN(ids, n) == IF Len(ids) <= n THEN ids ELSE SubSeq(ids, Len(ids) - n + 1, Len(ids))

\* data[0].split() of a SEARCH reply listing n messages.
Ids(n) == [i \in 1..n |-> i]

(* ------------------------------ app.main ------------------------------ *)

\* `if not user_email or not user_password` (app.py)
App_credentials_missing(e, p) == Falsy(e) \/ Falsy(p)

\* A slip in main: the failure is logged and the failed statement is run again.
Caught_retries(e, inner) ==
    /\ log' = log \o inner \o <<LogRec("error", "Error: ", e)>>
    /\ UNCHANGED <<pc, ret>>

\* main's `except Exception as e: logging.error(...)`: the run ends here.
Caught(e, inner) ==
    /\ pc' = "done"
    /\ log' = log \o inner \o <<LogRec("error", "Error: ", e)>>
    /\ ret' = Returned(None)

\* main, lines 160-165.
Main_load_credentials ==
    /\ pc = "main"
    /\ user_email' = environ_get(environ, "EMAIL")
    /\ user_password' = environ_get(environ, "PASSWORD")
    /\ IF App_credentials_missing(user_email', user_password')
       THEN /\ pc' = "done"
            /\ log' = Append(log, LogRec("error",
                          "Email or password environment variables not set.", "none"))
            /\ ret' = Returned(None)
       ELSE /\ pc' = "connect_imap"
            /\ UNCHANGED <<log, ret>>
    /\ UNCHANGED <<entry, environ, imap, smtp, trace, files, clock, email_ids,
                   emails, args, msg, ics_calls>>

\* A slip in connect_to_outlook_imap: the login error is logged and not
\* re-raised, and the connection is returned all the same.
App_imap_login_swallows ==
    /\ pc = "imap_login"
    /\ \/ /\ trace' = Append(trace, Ev("imap.login", imap, "raise", 0))
          /\ log' = Append(log, LogRec("error", "IMAP connection failed: ",
                                       "IMAP4.error"))
          /\ UNCHANGED imap
       \/ /\ trace' = Append(trace, Ev("imap.login", imap, "ok", 0))
          /\ imap' = "Authenticated"
          /\ log' = Append(log, LogRec("info", "IMAP connection established.", "none"))
    /\ pc' = "fetch_inbox_emails"
    /\ UNCHANGED <<entry, environ, user_email, user_password, smtp, files, clock,
                   email_ids, emails, args, msg, ret, ics_calls>>

\* connect_to_outlook_imap (app.py), called at main line 169: the connection
\* is made (line 38), or IMAP4_SSL raises.
App_imap_open ==
    /\ pc = "connect_imap"
    /\ \/ /\ trace' = Append(trace, Ev("IMAP4_SSL", imap, "raise", imap_port))
          /\ Caught("OSError", <<>>)
          /\ UNCHANGED imap
       \/ /\ trace' = Append(trace, Ev("IMAP4_SSL", imap, "ok", imap_port))
          /\ imap' = "Unauthenticated"
          /\ pc' = "imap_login"
          /\ UNCHANGED <<log, ret>>
    /\ UNCHANGED <<entry, environ, user_email, user_password, smtp, files, clock,
                   email_ids, emails, args, msg, ics_calls>>

\* connect_to_outlook_imap (app.py), lines 40-47: the login, its error logged
\* and raised again, the connection returned.
App_imap_login ==
    /\ pc = "imap_login"
    /\ \/ /\ trace' = Append(trace, Ev("imap.login", imap, "raise", 0))
          /\ Caught("IMAP4.error",
                    <<LogRec("error", "IMAP connection failed: ", "IMAP4.error")>>)
          /\ UNCHANGED imap
       \/ /\ trace' = Append(trace, Ev("imap.login", imap, "ok", 0))
          /\ imap' = "Authenticated"
          /\ log' = Append(log, LogRec("info", "IMAP connection established.", "none"))
          /\ pc' = "fetch_inbox_emails"
          /\ UNCHANGED ret
    /\ UNCHANGED <<entry, environ, user_email, user_password, smtp, files, clock,
                   email_ids, emails, args, msg, ics_calls>>

\* fetch_inbox_emails, lines 59-67: select, search, the ids to fetch.
App_fetch_begin ==
    /\ pc = "fetch_inbox_emails"
    /\ \E sel \in {"OK", "NO"}, res \in {"OK", "NO"}, n \in 0..MaxMsgs :
          /\ res = "NO" => n = 0
          /\ trace' = trace \o <<Ev("imap.select", imap, sel, 0),
                                 Ev("imap.search", imap, res, n)>>
          /\ IF NotOK(res)
             THEN /\ Caught("Exception: Failed to search inbox.", <<>>)
                  /\ UNCHANGED <<email_ids, emails>>
             ELSE /\ email_ids' = LastN(Ids(n), num_emails)
                  /\ emails' = <<>>
                  /\ pc' = "fetch_loop"
                  /\ UNCHANGED <<log, ret>>
    /\ UNCHANGED <<entry, environ, user_email, user_password, imap, smtp, files,
                   clock, args, msg, ics_calls>>

\* fetch_inbox_emails, lines 68-72: one turn of the loop.
App_fetch_iter ==
    /\ pc = "fetch_loop"
    /\ email_ids # <<>>
    /\ \E res \in {"OK", "NO"}, raw \in RawMessages :
          /\ res = "NO" => raw = <<>>
          /\ trace' = Append(trace, Ev("imap.fetch", imap, res,
                                       [id |-> Head(email_ids), msg |-> raw]))
          /\ IF NotOK(res)
             THEN /\ Caught("Exception: Failed to fetch email.", <<>>)
                  /\ email_ids' = <<>>
                  /\ emails' = <<>>
             ELSE IF decode_utf8(raw) = None
             THEN /\ Caught("UnicodeDecodeError", <<>>)
                  /\ email_ids' = <<>>
                  /\ emails' = <<>>
             ELSE /\ emails' = Append(emails, decode_utf8(raw)[1])
                  /\ email_ids' = Tail(email_ids)
                  /\ UNCHANGED <<pc, log, ret>>
    /\ UNCHANGED <<entry, environ, user_email, user_password, imap, smtp, files,
                   clock, args, msg, ics_calls>>

\* fetch_inbox_emails, line 74: the loop is over, the list is returned.
App_fetch_return ==
    /\ pc = "fetch_loop"
    /\ email_ids = <<>>
    /\ ret' = Returned(emails)
    /\ pc' = "print_logout"
    /\ UNCHANGED <<entry, environ, user_email, user_password, imap, smtp, trace,
                   files, clock, email_ids, emails, args, msg, log, ics_calls>>

\* A slip in main: the emails are printed and imap_conn.logout() is left out.
Main_print_no_logout ==
    /\ pc = "print_logout"
    /\ pc' = "connect_smtp"
    /\ UNCHANGED <<entry, environ, user_email, user_password, imap, smtp, trace,
                   files, clock, email_ids, emails, args, msg, ret, log, ics_calls>>

\* main, lines 173-178: the emails are printed, the IMAP session is logged out.
Main_print_logout ==
    /\ pc = "print_logout"
    /\ trace' = Append(trace, Ev("imap.logout", imap, "ok", 0))
    /\ imap' = "Closed"
    /\ pc' = "connect_smtp"
    /\ UNCHANGED <<entry, environ, user_email, user_password, smtp, files, clock,
                   email_ids, emails, args, msg, ret, log, ics_calls>>

\* connect_to_outlook_smtp (app.py), called at main line 181: the connection
\* is made and upgraded (lines 92-93), or SMTP or starttls raises.
App_smtp_open ==
    /\ pc = "connect_smtp"
    /\ \/ /\ trace' = Append(trace, Ev("SMTP", smtp, "raise", smtp_port))
          /\ Caught("OSError", <<>>)
          /\ UNCHANGED smtp
       \/ /\ trace' = trace \o <<Ev("SMTP", smtp, "ok", smtp_port),
                                 Ev("smtp.starttls", "Unauthenticated", "raise", 0)>>
          /\ smtp' = "Unauthenticated"
          /\ Caught("SMTPException", <<>>)
       \/ /\ trace' = trace \o <<Ev("SMTP", smtp, "ok", smtp_port),
                                 Ev("smtp.starttls", "Unauthenticated", "ok", 0)>>
          /\ smtp' = "Unauthenticated"
          /\ pc' = "smtp_login"
          /\ UNCHANGED <<log, ret>>
    /\ UNCHANGED <<entry, environ, user_email, user_password, imap, files, clock,
                   email_ids, emails, args, msg, ics_calls>>

\* connect_to_outlook_smtp (app.py), lines 95-102: the login, its error logged
\* and raised again, the connection returned.
App_smtp_login ==
    /\ pc = "smtp_login"
    /\ \/ /\ trace' = Append(trace, Ev("smtp.login", smtp, "raise", 0))
          /\ Caught("SMTPAuthenticationError",
                    <<LogRec("error", "SMTP connection failed: ",
                             "SMTPAuthenticationError")>>)
          /\ UNCHANGED smtp
       \/ /\ trace' = Append(trace, Ev("smtp.login", smtp, "ok", 0))
          /\ smtp' = "Authenticated"
          /\ log' = Append(log, LogRec("info", "SMTP connection established.", "none"))
          /\ pc' = "input"
          /\ UNCHANGED ret
    /\ UNCHANGED <<entry, environ, user_email, user_password, imap, files, clock,
                   email_ids, emails, args, msg, ics_calls>>

\* main, lines 184-186: the three prompts; input() raises EOFError at end of input.
Main_input ==
    /\ pc = "input"
    /\ \/ /\ Caught("EOFError", <<>>)
          /\ UNCHANGED args
       \/ /\ \E b \in Bodies :
                args' = [fn |-> "main", to_email |-> Rcpt, subject |-> SubjHi,
                         body |-> b, attachment_path |-> None]
          /\ pc' = "create_ics"
          /\ UNCHANGED <<log, ret>>
    /\ UNCHANGED <<entry, environ, user_email, user_password, imap, smtp, trace,
                   files, clock, email_ids, emails, msg, ics_calls>>

\* main, lines 189-195: the event's fields, then create_ics_file (app.py 104-124).
\* t0, t1 and t2 are what the three datetime.now() calls read.
Main_create_ics ==
    /\ pc = "create_ics"
    /\ \E t0 \in clock..MaxClock :
       \E t1 \in t0..MaxClock :
       \E t2 \in t1..MaxClock :
       LET start_time == plus_day(now(t0))
           end_time == plus_hour(start_time)
           name == ics_filename_of(MeetingWithTeam)
           content == App_ics_content(MeetingWithTeam, start_time, end_time,
                                      DiscussingProjectUpdates, Office, t1, t2)
       IN  /\ clock' = t2
           /\ \/ /\ trace' = Append(trace, Ev("open.w", "none", "raise",
                                              [name |-> name, text |-> content]))
                 /\ Caught("OSError", <<>>)
                 /\ UNCHANGED <<files, args, ics_calls>>
              \/ /\ trace' = Append(trace, Ev("open.w", "none", "ok",
                                              [name |-> name, text |-> content]))
                 /\ files' = WriteFile(files, name, content)
                 /\ args' = [args EXCEPT !.attachment_path = Some(name)]
                 /\ ics_calls' = ics_calls + 1
                 /\ pc' = "send_email"
                 /\ UNCHANGED <<log, ret>>
    /\ UNCHANGED <<entry, environ, user_email, user_password, imap, smtp,
                   email_ids, emails, msg>>

\* send_email (app.py 127-157), called at main line 197.
Main_send_email ==
    /\ pc = "send_email"
    /\ LET path == args.attachment_path
           opened == IF Attaches(path)
                     THEN <<Ev("open.rb", "none",
                               IF Readable(path, files) THEN "ok" ELSE "raise",
                               path[1])>>
                     ELSE <<>>
       IN  IF Attaches(path) /\ ~Readable(path, files)
           THEN /\ trace' = trace \o opened
                /\ Caught("FileNotFoundError", <<>>)
                /\ UNCHANGED msg
           ELSE \E out \in SendOutcomes :
                LET m == App_message(user_email[1], args.to_email, args.subject,
                                     args.body, path, files)
                IN  /\ msg' = Some(m)
                    /\ trace' = trace \o opened
                                \o <<Ev("smtp.sendmail", smtp,
                                        IF out = "ok" THEN "ok" ELSE "raise", out)>>
                    /\ IF SendResult(out).kind = "returned"
                       THEN /\ log' = Append(log, LogRec("info",
                                                 "Email sent successfully.", "none"))
                            /\ pc' = "quit"
                            /\ UNCHANGED ret
                       ELSE Caught(SendResult(out).exc,
                                   <<LogRec("error", "Failed to send email: ", out)>>)
    /\ UNCHANGED <<entry, environ, user_email, user_password, imap, smtp, files,
                   clock, email_ids, emails, args, ics_calls>>

\* main, line 200: the SMTP session is quit; main returns.
Main_quit ==
    /\ pc = "quit"
    /\ trace' = Append(trace, Ev("smtp.quit", smtp, "ok", 0))
    /\ smtp' = "Closed"
    /\ pc' = "done"
    /\ ret' = Returned(None)
    /\ UNCHANGED <<entry, environ, user_email, user_password, imap, files, clock,
                   email_ids, emails, args, msg, log, ics_calls>>

AppNext ==
    \/ Main_load_credentials
    \/ App_imap_open
    \/ App_imap_login
    \/ App_fetch_begin
    \/ App_fetch_iter
    \/ App_fetch_return
    \/ Main_print_logout
    \/ App_smtp_open
    \/ App_smtp_login
    \/ Main_input
    \/ Main_create_ics
    \/ Main_send_email
    \/ Main_quit

(* ------------------- MailHandler, as its tests use it ------------------ *)

\* A slip in the credential test: only an unset variable counts, an empty one passes.
MH_credentials_missing_unset_only(e, p) == e = None \/ p = None

\* `if not self.user_email or not self.user_password` (MailHandler.py)
MH_credentials_missing(e, p) == Falsy(e) \/ Falsy(p)

\* The fixture's MailHandler(): __init__ and load_env_vars (lines 16-28).
MH_init ==
    /\ pc = "fixture"
    /\ user_email' = environ_get(environ, "EMAIL")
    /\ user_password' = environ_get(environ, "PASSWORD")
    /\ IF MH_credentials_missing(user_email', user_password')
       THEN /\ ret' = Raised("ValueError")
            /\ pc' = "done"
       ELSE /\ ret' = Returned(None)
            /\ pc' = "test"
    /\ UNCHANGED <<entry, environ, imap, smtp, trace, files, clock, email_ids,
                   emails, args, msg, log, ics_calls>>

\* The handler exists and the test has not yet called a method of it.
TestMayCall == pc = "test" /\ ics_calls = 0

\* connect_to_outlook_imap, lines 43-45: the connection is made, or IMAP4_SSL
\* raises.
MH_imap_open ==
    /\ TestMayCall
    /\ args' = [fn |-> "connect_to_outlook_imap"]
    /\ \/ /\ trace' = Append(trace, Ev("IMAP4_SSL", imap, "raise", imap_port))
          /\ ret' = Raised("OSError")
          /\ pc' = "done"
          /\ UNCHANGED imap
       \/ /\ trace' = Append(trace, Ev("IMAP4_SSL", imap, "ok", imap_port))
          /\ imap' = "Unauthenticated"
          /\ pc' = "imap_login_mh"
          /\ UNCHANGED ret
    /\ UNCHANGED <<entry, environ, user_email, user_password, smtp, files, clock,
                   email_ids, emails, msg, log, ics_calls>>

\* connect_to_outlook_imap, lines 47-54: the login, its error logged and raised
\* again, the connection returned.
MH_imap_login ==
    /\ pc = "imap_login_mh"
    /\ pc' = "done"
    /\ \/ /\ trace' = Append(trace, Ev("imap.login", imap, "raise", 0))
          /\ log' = Append(log, LogRec("error", "IMAP connection failed: ",
                                       "IMAP4.error"))
          /\ ret' = Raised("IMAP4.error")
          /\ UNCHANGED imap
       \/ /\ trace' = Append(trace, Ev("imap.login", imap, "ok", 0))
          /\ imap' = "Authenticated"
          /\ log' = Append(log, LogRec("info", "IMAP connection established.", "none"))
          /\ ret' = Returned(None)
    /\ UNCHANGED <<entry, environ, user_email, user_password, smtp, files, clock,
                   email_ids, emails, args, msg, ics_calls>>

\* connect_to_outlook_smtp, lines 103-106: the connection is made and upgraded,
\* or SMTP or starttls raises.
MH_smtp_open ==
    /\ TestMayCall
    /\ args' = [fn |-> "connect_to_outlook_smtp"]
    /\ \/ /\ trace' = Append(trace, Ev("SMTP", smtp, "raise", smtp_port))
          /\ ret' = Raised("OSError")
          /\ pc' = "done"
          /\ UNCHANGED smtp
       \/ /\ trace' = trace \o <<Ev("SMTP", smtp, "ok", smtp_port),
                                 Ev("smtp.starttls", "Unauthenticated", "raise", 0)>>
          /\ smtp' = "Unauthenticated"
          /\ ret' = Raised("SMTPException")
          /\ pc' = "done"
       \/ /\ trace' = trace \o <<Ev("SMTP", smtp, "ok", smtp_port),
                                 Ev("smtp.starttls", "Unauthenticated", "ok", 0)>>
          /\ smtp' = "Unauthenticated"
          /\ pc' = "smtp_login_mh"
          /\ UNCHANGED ret
    /\ UNCHANGED <<entry, environ, user_email, user_password, imap, files, clock,
                   email_ids, emails, msg, log, ics_calls>>

\* connect_to_outlook_smtp, lines 108-115: the login, its error logged and
\* raised again, the connection returned.
MH_smtp_login ==
    /\ pc = "smtp_login_mh"
    /\ pc' = "done"
    /\ \/ /\ trace' = Append(trace, Ev("smtp.login", smtp, "raise", 0))
          /\ log' = Append(log, LogRec("error", "SMTP connection failed: ",
                                       "SMTPAuthenticationError"))
          /\ ret' = Raised("SMTPAuthenticationError")
          /\ UNCHANGED smtp
       \/ /\ trace' = Append(trace, Ev("smtp.login", smtp, "ok", 0))
          /\ smtp' = "Authenticated"
          /\ log' = Append(log, LogRec("info", "SMTP connection established.", "none"))
          /\ ret' = Returned(None)
    /\ UNCHANGED <<entry, environ, user_email, user_password, imap, files, clock,
                   email_ids, emails, args, msg, ics_calls>>

\* A slip in the filter: only the message's own type is looked at.
IsCalendarResponse_top_only(m) == m.ctype = "text/calendar"

\* Whether fetch_calendar_responses keeps a message (lines 84-90): its own type
\* is text/calendar, or else some part of its walk is.
IsCalendarResponse(m) ==
    IF m.ctype = "text/calendar" THEN TRUE
    ELSE \E i \in 1..Len(walk(m)) : walk(m)[i].ctype = "text/calendar"

\* fetch_calendar_responses, lines 69-76, on the session the test hands over:
\* select, search, the ids to fetch.
MH_fetch_begin ==
    /\ TestMayCall
    /\ args' = [fn |-> "fetch_calendar_responses"]
    /\ imap' = "Authenticated"
    /\ \E sel \in {"OK", "NO"}, res \in {"OK", "NO"}, n \in 0..MaxMsgs :
          /\ res = "NO" => n = 0
          /\ trace' = trace \o <<Ev("imap.select", imap', sel, 0),
                                 Ev("imap.search", imap', res, n)>>
          /\ IF NotOK(res)
             THEN /\ ret' = Raised("Exception: Failed to search inbox.")
                  /\ pc' = "done"
                  /\ UNCHANGED <<email_ids, emails>>
             ELSE /\ email_ids' = Ids(n)
                  /\ emails' = <<>>
                  /\ pc' = "fetch_loop_mh"
                  /\ UNCHANGED ret
    /\ UNCHANGED <<entry, environ, user_email, user_password, smtp, files, clock,
                   msg, log, ics_calls>>

\* fetch_calendar_responses, lines 77-90: one turn of the loop.
MH_fetch_iter ==
    /\ pc = "fetch_loop_mh"
    /\ email_ids # <<>>
    /\ \E res \in {"OK", "NO"}, m \in ServerMessages :
          /\ res = "NO" => m = Leaf("text/plain")
          /\ trace' = Append(trace, Ev("imap.fetch", imap, res,
                                       [id |-> Head(email_ids), msg |-> m]))
          /\ IF NotOK(res)
             THEN /\ ret' = Raised("Exception: Failed to fetch email.")
                  /\ pc' = "done"
                  /\ email_ids' = <<>>
                  /\ emails' = <<>>
             ELSE /\ emails' = IF IsCalendarResponse(m)
                               THEN Append(emails, GetHeader(m, "Subject"))
                               ELSE emails
                  /\ email_ids' = Tail(email_ids)
                  /\ UNCHANGED <<pc, ret>>
    /\ UNCHANGED <<entry, environ, user_email, user_password, imap, smtp, files,
                   clock, args, msg, log, ics_calls>>

\* fetch_calendar_responses, line 92.
MH_fetch_return ==
    /\ pc = "fetch_loop_mh"
    /\ email_ids = <<>>
    /\ ret' = Returned(emails)
    /\ pc' = "done"
    /\ UNCHANGED <<entry, environ, user_email, user_password, imap, smtp, trace,
                   files, clock, email_ids, emails, args, msg, log, ics_calls>>

\* create_ics_file (lines 139-160); t1 and t2 are what its two datetime.now()
\* calls read. The test may call it again.
MH_create_ics_file ==
    /\ pc = "test"
    /\ ics_calls < MaxIcsCalls
    /\ ics_calls' = ics_calls + 1
    /\ \E event_name \in EventNames :
       \E t1 \in clock..MaxClock :
       \E t2 \in t1..MaxClock :
       LET start_time == DateTime(2, 12, 0)
           end_time == plus_hour(start_time)
           name == ics_filename_of(event_name)
           content == MH_ics_content(user_email[1], event_name, start_time, end_time,
                                     Descr, Loc, Attendee, t1, t2)
       IN  /\ clock' = t2
           /\ args' = [fn |-> "create_ics_file", event_name |-> event_name,
                       content |-> content]
           /\ \/ /\ trace' = Append(trace, Ev("open.w", "none", "raise",
                                              [name |-> name, text |-> content]))
                 /\ ret' = Raised("OSError")
                 /\ pc' = "done"
                 /\ UNCHANGED files
              \/ /\ trace' = Append(trace, Ev("open.w", "none", "ok",
                                              [name |-> name, text |-> content]))
                 /\ files' = WriteFile(files, name, content)
                 /\ ret' = Returned(name)
                 /\ UNCHANGED pc
    /\ UNCHANGED <<entry, environ, user_email, user_password, imap, smtp,
                   email_ids, emails, msg, log>>

\* send_email (lines 179-214) on the session the test hands over.
MH_send_email ==
    /\ TestMayCall
    /\ pc' = "done"
    /\ smtp' = "Authenticated"
    /\ \E b \in Bodies, path \in AttachmentPaths :
       LET opened == IF Attaches(path)
                     THEN <<Ev("open.rb", "none",
                               IF Readable(path, files) THEN "ok" ELSE "raise",
                               path[1])>>
                     ELSE <<>>
       IN  /\ args' = [fn |-> "send_email", to_email |-> Rcpt, subject |-> SubjHi,
                       body |-> b, attachment_path |-> path]
           /\ IF Attaches(path) /\ ~Readable(path, files)
              THEN /\ trace' = trace \o opened
                   /\ ret' = Raised("FileNotFoundError")
                   /\ UNCHANGED <<msg, log>>
              ELSE \E out \in SendOutcomes :
                   LET m == MH_message(user_email[1], Rcpt, SubjHi, b, path, files)
                   IN  /\ msg' = Some(m)
                       /\ trace' = trace \o opened
                                   \o <<Ev("smtp.sendmail", smtp',
                                           IF out = "ok" THEN "ok" ELSE "raise", out)>>
                       /\ ret' = SendResult(out)
                       /\ log' = Append(log,
                                    IF out = "ok"
                                    THEN LogRec("info", "Email sent successfully.", "none")
                                    ELSE LogRec("error", "Failed to send email: ", out))
    /\ UNCHANGED <<entry, environ, user_email, user_password, imap, files, clock,
                   email_ids, emails, ics_calls>>

TestNext ==
    \/ MH_init
    \/ MH_imap_open
    \/ MH_imap_login
    \/ MH_fetch_begin
    \/ MH_fetch_iter
    \/ MH_fetch_return
    \/ MH_smtp_open
    \/ MH_smtp_login
    \/ MH_create_ics_file
    \/ MH_send_email

Next == AppNext \/ TestNext

Spec == Init /\ [][Next]_vars

(* ------------------------------- claims ------------------------------- *)

Ops(tr) == [i \in 1..Len(tr) |-> tr[i].op]

ImapUseOps == {"imap.select", "imap.search", "imap.fetch"}

ImapOps == {"IMAP4_SSL", "imap.login", "imap.logout"} \cup ImapUseOps

SmtpOps == {"SMTP", "smtp.starttls", "smtp.login", "smtp.sendmail", "smtp.quit"}

NetworkOps == ImapOps \cup SmtpOps

\* The run's environment lacks a credential: EMAIL or PASSWORD is unset or empty.
CredentialMissing ==
    \/ "EMAIL" \notin DOMAIN environ
    \/ "PASSWORD" \notin DOMAIN environ
    \/ environ["EMAIL"] = <<>>
    \/ environ["PASSWORD"] = <<>>

\* C1: when EMAIL or PASSWORD is unset or empty, the run never gets past the
\* credential check, MailHandler() raises ValueError and app.main returns, and
\* no connection is opened and no call is made on the network.
C1_MissingCredentialsHaltBeforeNetwork ==
    CredentialMissing =>
        /\ pc \in {"main", "fixture", "done"}
        /\ \A i \in 1..Len(trace) : trace[i].op \notin NetworkOps
        /\ imap = "none" /\ smtp = "none"
        /\ (pc = "done" /\ entry = "test") => ret = Raised("ValueError")
        /\ (pc = "done" /\ entry = "app") => ret = Returned(None)

\* C1's case: MailHandler() has raised ValueError for an empty PASSWORD beside a
\* proper EMAIL.
C1_Witness ==
    /\ entry = "test" /\ pc = "done" /\ ret = Raised("ValueError")
    /\ environ = [k \in EnvNames |-> IF k = "EMAIL" THEN Me ELSE <<>>]

\* The moves a session makes: opened, authenticated, closed, in that order only.
SessionMoves ==
    {<<"none", "Unauthenticated">>, <<"Unauthenticated", "Authenticated">>,
     <<"Authenticated", "Closed">>}

\* In main every use of a session found it authenticated, and no call follows
\* a failed login on that session.
UsedOnlyAuthenticated ==
    entry = "app" =>
        \A i \in 1..Len(trace) :
            /\ trace[i].op \in ImapUseOps \cup {"smtp.sendmail"}
                  => trace[i].sess = "Authenticated"
            /\ (trace[i].op \in {"imap.login", "smtp.login"} /\ trace[i].status = "raise")
                  => i = Len(trace)

\* C2: in every run of main, select, search and fetch are issued only on an
\* authenticated, not yet closed retrieval session and sendmail only on an
\* authenticated, not yet closed submission session; after a failed login the
\* session is not used; and a session only moves from unauthenticated to
\* authenticated to closed.
C2_AuthenticatedBeforeUse ==
    /\ [](UsedOnlyAuthenticated)
    /\ [][entry = "app" =>
            /\ imap' # imap => <<imap, imap'>> \in SessionMoves
            /\ smtp' # smtp => <<smtp, smtp'>> \in SessionMoves]_vars

\* C2's case: main has scanned on the one session and sent on the other.
C2_Witness ==
    /\ entry = "app" /\ imap = "Closed" /\ smtp = "Closed"
    /\ \E i \in 1..Len(trace) : trace[i].op = "imap.fetch"
    /\ \E i \in 1..Len(trace) : trace[i].op = "smtp.sendmail"

\* C3, as claimed: when main has ended, every session it created has been
\* closed, whatever failed on the way.
C3_EverySessionClosed ==
    (entry = "app" /\ pc = "done") =>
        /\ imap \in {"none", "Closed"}
        /\ smtp \in {"none", "Closed"}

\* The events of the trace with operation op, in order.
RECURSIVE EventsOf(_, _)
EventsOf(tr, op) ==
    IF tr = <<>> THEN <<>>
    ELSE (IF Head(tr).op = op THEN <<Head(tr)>> ELSE <<>>) \o EventsOf(Tail(tr), op)

\* The messages fetched with success, in the order the server was asked.
FetchedMessages ==
    LET f == EventsOf(trace, "imap.fetch")
        ok == {i \in 1..Len(f) : f[i].status = "OK"}
    IN  [i \in 1..Cardinality(ok) |-> f[i].arg.msg]

\* A message has calendar content: it is text/calendar or a part below it is.
RECURSIVE HasCalendar(_)
HasCalendar(m) ==
    \/ m.ctype = "text/calendar"
    \/ \E i \in 1..Len(m.parts) : HasCalendar(m.parts[i])

\* The Subject of each message with calendar content, in the messages' order.
RECURSIVE CalendarSubjects(_)
CalendarSubjects(ms) ==
    IF ms = <<>> THEN <<>>
    ELSE (IF HasCalendar(Head(ms)) THEN <<GetHeader(Head(ms), "Subject")>> ELSE <<>>)
         \o CalendarSubjects(Tail(ms))

\* The ids of the fetches made are the first ids the search listed, in order.
FetchesInEnumerationOrder ==
    LET f == EventsOf(trace, "imap.fetch")
    IN  \A i \in 1..Len(f) : f[i].arg.id = i

\* A call of fetch_calendar_responses has returned.
ScanReturned ==
    /\ entry = "test" /\ pc = "done"
    /\ args.fn = "fetch_calendar_responses" /\ ret.kind = "returned"

ScanException(op) ==
    IF op = "imap.search" THEN "Exception: Failed to search inbox."
    ELSE "Exception: Failed to fetch email."

\* The places of the trace where a search or a fetch did not succeed.
ScanFailures ==
    {i \in 1..Len(trace) :
        trace[i].op \in {"imap.search", "imap.fetch"} /\ trace[i].status # "OK"}

\* C5: a search or fetch that does not succeed ends the scan at once: the scan
\* raises, no list (no part of one) reaches the caller, no fetch follows, and
\* nothing is asked twice; a scan that returns has fetched every listed message.
C5_ScanFailureIsFatal ==
    /\ \A i \in ScanFailures :
          /\ i = Len(trace)
          /\ pc = "done"
          /\ emails = <<>>
          /\ entry = "test" => ret.kind = "raised" /\ ret.exc = ScanException(trace[i].op)
          /\ entry = "app" => log[Len(log)].exc = ScanException(trace[i].op)
    /\ Len(EventsOf(trace, "imap.search")) <= 1
    /\ FetchesInEnumerationOrder
    /\ (ScanReturned \/ (entry = "app" /\ pc = "print_logout")) =>
          /\ ScanFailures = {}
          /\ Len(EventsOf(trace, "imap.fetch")) = EventsOf(trace, "imap.search")[1].arg
          /\ entry = "app" => Len(ret.val) = EventsOf(trace, "imap.search")[1].arg

\* C5's case: the first fetch brought a calendar message, the second failed,
\* and fetch_calendar_responses raised.
C5_Witness ==
    /\ entry = "test" /\ ret.kind = "raised"
    /\ Len(EventsOf(trace, "imap.fetch")) = 2
    /\ EventsOf(trace, "imap.fetch")[1].status = "OK"
    /\ HasCalendar(EventsOf(trace, "imap.fetch")[1].arg.msg)
    /\ EventsOf(trace, "imap.fetch")[2].status = "NO"

\* A walk with the tree structure dropped: each part's own type, parameters,
\* headers and payload.
Flat(m) ==
    [i \in 1..Len(walk(m)) |->
        [ctype |-> walk(m)[i].ctype, params |-> walk(m)[i].params,
         headers |-> walk(m)[i].headers, payload |-> walk(m)[i].payload]]

B64Index(c) == (CHOOSE i \in 1..64 : B64Alphabet[i] = c) - 1

\* The bytes a base64 text (without line breaks) stands for: each four
\* characters give three bytes, less one for each "=" at the end.
B64DecodeQuads(t) ==
    LET pad == IF t = <<>> THEN 0
               ELSE IF t[Len(t) - 1] = "=" THEN 2
               ELSE IF t[Len(t)] = "=" THEN 1 ELSE 0
        n == 3 * (Len(t) \div 4) - pad
    IN  [k \in 1..n |->
            LET q == 4 * ((k - 1) \div 3)
                a == B64Index(t[q + 1])
                b == B64Index(t[q + 2])
            IN  IF (k - 1) % 3 = 0 THEN a * 4 + b \div 16
                ELSE IF (k - 1) % 3 = 1 THEN (b % 16) * 16 + B64Index(t[q + 3]) \div 4
                ELSE (B64Index(t[q + 3]) % 4) * 64 + B64Index(t[q + 4])]

NotNewline(c) == c # "\n"

B64Decode(t) == B64DecodeQuads(SelectSeq(t, NotNewline))

\* send_email has built its message.
MessageBuilt == msg # None /\ args.fn \in {"send_email", "main"}

\* The content types of a message without attachment: app.send_email puts the
\* text under one container, MailHandler.send_email under two.
PlainStructure ==
    IF entry = "app" THEN <<"multipart/mixed", "text/plain">>
    ELSE <<"multipart/mixed", "multipart/alternative", "text/plain">>

\* The message send_email builds for the same call without attachment_path.
WithoutAttachment ==
    IF entry = "app"
    THEN App_message(user_email[1], args.to_email, args.subject, args.body, None, files)
    ELSE MH_message(user_email[1], args.to_email, args.subject, args.body, None, files)

SendEnded ==
    \/ entry = "test" /\ args.fn = "send_email" /\ pc = "done"
    \/ entry = "app" /\ pc \in {"quit", "done"} /\ EventsOf(trace, "open.rb") # <<>>

\* C7, as claimed: every call of send_email invokes sendmail exactly once, and
\* what sendmail raises reaches the caller unchanged.
C7_SendmailExactlyOnce ==
    SendEnded =>
        LET sm == EventsOf(trace, "smtp.sendmail")
        IN  /\ Len(sm) = 1
            /\ (entry = "test" /\ sm[1].status = "raise") => ret = Raised(sm[1].arg)

\* C7, amended: a call of send_email whose attachment, if one is given, can be
\* opened invokes sendmail exactly once, returns normally only if sendmail did,
\* and otherwise raises what sendmail raised; a call whose attachment file
\* cannot be opened raises that error without invoking sendmail at all.
C7_SendmailOnceUnlessUnreadable ==
    SendEnded =>
        LET sm == EventsOf(trace, "smtp.sendmail")
            rb == EventsOf(trace, "open.rb")
            unreadable == rb # <<>> /\ rb[1].status = "raise"
        IN  /\ Len(sm) = IF unreadable THEN 0 ELSE 1
            /\ (unreadable /\ entry = "test") => ret = Raised("FileNotFoundError")
            /\ (~unreadable /\ entry = "test") =>
                  ret = IF sm[1].status = "ok" THEN Returned(None) ELSE Raised(sm[1].arg)
            /\ (~unreadable /\ entry = "app") =>
                  IF sm[1].status = "ok"
                  THEN pc = "quit" \/ trace[Len(trace)].op = "smtp.quit"
                  ELSE /\ pc = "done"
                       /\ trace[Len(trace)].op = "smtp.sendmail"
                       /\ log[Len(log)].exc = sm[1].arg

\* C7's case: sendmail raised SMTPServerDisconnected and send_email raised it on.
C7_Witness ==
    /\ entry = "test" /\ args.fn = "send_email" /\ pc = "done"
    /\ EventsOf(trace, "smtp.sendmail") # <<>>
    /\ EventsOf(trace, "smtp.sendmail")[1].arg = "SMTPServerDisconnected"
    /\ ret = Raised("SMTPServerDisconnected")

\* A call that failed: it raised, or it is a search or fetch answered NO.
Failed(e) ==
    \/ e.status = "raise"
    \/ e.op \in {"imap.search", "imap.fetch"} /\ e.status = "NO"

\* C8: in main a failed step is the run's last: after a failed connection,
\* login, search, fetch, prompt, file write or send the run is over with nothing
\* executed after it (no SMTP step after a retrieval failure), and no network
\* operation is made twice.
C8_FailureEndsRun ==
    entry = "app" =>
        /\ \A i \in 1..Len(trace) :
              Failed(trace[i]) =>
                  /\ i = Len(trace)
                  /\ pc = "done"
                  /\ trace[i].op \in ImapOps =>
                        smtp = "none" /\ \A j \in 1..Len(trace) : trace[j].op \notin SmtpOps
        /\ (\E i \in 1..Len(log) : log[i].level = "error") => pc = "done"
        /\ \A op \in (NetworkOps \cup {"open.w", "open.rb"}) \ {"imap.fetch"} :
              Len(EventsOf(trace, op)) <= 1
        /\ FetchesInEnumerationOrder

\* C8's case: main's second fetch failed after a first that succeeded; the run
\* is over and no submission session was opened.
C8_Witness ==
    /\ entry = "app" /\ pc = "done" /\ smtp = "none"
    /\ Len(EventsOf(trace, "imap.fetch")) = 2
    /\ trace[Len(trace)].op = "imap.fetch" /\ trace[Len(trace)].status = "NO"

\* main has run to its end without a failure.
Completed ==
    /\ entry = "app" /\ pc = "done"
    /\ trace # <<>> /\ trace[Len(trace)].op = "smtp.quit"

Fetches(n) == [i \in 1..n |-> "imap.fetch"]

\* C9, as claimed: a run without failure makes its steps once each in the order
\* scan (open, login, select, search, fetches, logout), invite file written,
\* submission session opened and authenticated, message sent, session quit.
C9_InviteBeforeSubmissionOpens ==
    Completed =>
        Ops(trace) = <<"IMAP4_SSL", "imap.login", "imap.select", "imap.search">>
                     \o Fetches(Len(EventsOf(trace, "imap.fetch")))
                     \o <<"imap.logout", "open.w", "SMTP", "smtp.starttls",
                          "smtp.login", "open.rb", "smtp.sendmail", "smtp.quit">>

\* C9, amended: a run without failure makes its steps once each in the order
\* credential load, scan (open, login, select, search, the listed fetches,
\* logout), submission session opened and authenticated, invite file written,
\* message with that file attached sent, session quit: the retrieval session is
\* closed before the submission session is opened, and the invite file is
\* written after the submission session is opened and authenticated, and
\* before the message is transmitted.
C9_StagesInOrder ==
    /\ entry = "app" /\ smtp # "none" => imap = "Closed" /\ ~Falsy(user_email)
    /\ Completed =>
          /\ Ops(trace) = <<"IMAP4_SSL", "imap.login", "imap.select", "imap.search">>
                          \o Fetches(EventsOf(trace, "imap.search")[1].arg)
                          \o <<"imap.logout", "SMTP", "smtp.starttls", "smtp.login",
                               "open.w", "open.rb", "smtp.sendmail", "smtp.quit">>
          /\ \A i \in 1..Len(trace) : ~Failed(trace[i])
          /\ imap = "Closed" /\ smtp = "Closed"
          /\ EventsOf(trace, "open.rb")[1].arg = EventsOf(trace, "open.w")[1].arg.name
          /\ B64Decode(msg[1].parts[2].payload)
                = EncodeText(EventsOf(trace, "open.w")[1].arg.text)

\* C9's case: main has scanned two messages, sent the invite and ended.
C9_Witness == Completed /\ Len(EventsOf(trace, "imap.fetch")) = 2

\* The create_ics_file calls that wrote their file, in order.
Written ==
    LET w == EventsOf(trace, "open.w")
    IN  SelectSeq(w, LAMBDA e : e.status = "ok")

\* The event name of the last create_ics_file call.
LastEventName == IF entry = "app" THEN MeetingWithTeam ELSE args.event_name

\* A call of create_ics_file has just returned the file name.
IcsReturned ==
    \/ entry = "test" /\ args.fn = "create_ics_file" /\ ret.kind = "returned"
    \/ entry = "app" /\ pc = "send_email"

\* C10: create_ics_file writes to, and returns, the event name with every space
\* turned into an underscore and ".ics" added; the file then holds what this
\* call wrote, whatever an earlier call left under that name, and the other
\* files are as they were.
C10_IcsFileName ==
    IcsReturned =>
        LET name == IF entry = "app" THEN args.attachment_path[1] ELSE ret.val
            ev == LastEventName
            last == Written[Len(Written)]
        IN  /\ Len(name) = Len(ev) + 4
            /\ \A i \in 1..Len(ev) : name[i] = IF ev[i] = " " THEN "_" ELSE ev[i]
            /\ SubSeq(name, Len(ev) + 1, Len(ev) + 4) = <<".", "i", "c", "s">>
            /\ ev = MeetingWithTeam =>
                  name = <<"M", "e", "e", "t", "i", "n", "g", "_", "w", "i", "t", "h",
                           "_", "T", "e", "a", "m", ".", "i", "c", "s">>
            /\ last.arg.name = name
            /\ name \in DOMAIN files
            /\ files[name] = EncodeText(last.arg.text)
            /\ DOMAIN files
                  = DOMAIN InitialFiles \cup {Written[i].arg.name : i \in 1..Len(Written)}
            /\ \A f \in DOMAIN InitialFiles : files[f] = InitialFiles[f]

\* C10's case: two calls for "Test Event" a second apart; the one file
\* Test_Event.ics holds what the second call wrote.
C10_Witness ==
    /\ entry = "test" /\ args.fn = "create_ics_file" /\ ret.kind = "returned"
    /\ Len(Written) = 2
    /\ args.event_name = TestEvent
    /\ Written[1].arg.name = Written[2].arg.name
    /\ Written[1].arg.text # Written[2].arg.text
    /\ files[ret.val] = EncodeText(Written[2].arg.text)

=============================================================================
